---- MODULE Spec2Model ----
(***************************************************************************)
(* Model of coalib/bears/Bear.py: the lifecycle that Bear.run drives       *)
(* (set_up, run_bear_from_section, tear_down, the bare except clause), the *)
(* message functions debug_msg / warn_msg / fail_msg over __send_msg, and  *)
(* the binding of the run hook's parameters from the section.              *)
(*                                                                         *)
(* A text is a sequence of tokens, so the empty string is << >> and        *)
(* str.join / str.format are computed, not assumed.                        *)
(***************************************************************************)
EXTENDS Integers, Sequences, FiniteSets, TLC

\* Longest list of prerequisites a class declares, and longest list handed to
\* missing_dependencies.
MaxDeps == 2

\* Capacity of the bounded channel handed to the bears as message_queue.
QueueCap == 2

\* Largest TIMEOUT, in clock ticks, a bear is constructed with.
MaxTimeout == 1

\* The bear instances (B is constructed only in the concurrent runs).
Bears == {"A", "B"}

VARIABLES
    section,        \* the Section every bear was constructed with (never written)
    message_queue,  \* message_queue[b]: "None" or "queue" (self.message_queue)
    queue,          \* content of the shared channel, oldest first
    run_impl,       \* run_impl[b]: does b's class override run_bear
    pc,             \* pc[b]: position of b inside Bear.run
    args,           \* args[b]: positional arguments given to run
    kwargs,         \* kwargs[b]: keyword arguments given to run (a dict)
    injected,       \* injected[b]: args and kwargs exactly as the caller gave them
    received,       \* received[b]: the parameters run_bear was entered with
    retval,         \* retval[b]: local retval of Bear.run
    caught,         \* caught[b]: the exception the except clause caught
    raised,         \* raised[b]: the exception Bear.run let through to its caller
    result,         \* result[b]: what Bear.run returned
    log,            \* log[b]: enqueues, hook entries and return of this invocation
    callres,        \* callres[b]: outcome of the last direct call on b
    TIMEOUT,        \* TIMEOUT[b]: self.TIMEOUT, in clock ticks
    waited,         \* waited[b]: ticks the put in progress has been blocked
    attrs,          \* attrs[b]: the attributes __init__ has set on b
    self_section,   \* self_section[b]: the object self.section refers to
    ctor,           \* ctor[b]: arguments and outcome of the last constructor call
    dep_mode,       \* how the class's get_dependencies builds its list
    declared,       \* the prerequisites the class declares
    dep_list,       \* the list an overriding get_dependencies keeps
    depcall,        \* argument, prerequisites and result of the last call
    signature,      \* the formal parameters of the callable described
    metadata        \* the Metadata Record last derived

\* What Bear.run, the message functions and the consumer never write.
static == << TIMEOUT, attrs, self_section, ctor, dep_mode, declared, dep_list,
             depcall, signature, metadata >>

\* What an invocation of Bear.run and the channel are made of.
running == << section, message_queue, queue, run_impl, pc, args, kwargs,
              injected, received, retval, caught, raised, result, log, callres,
              waited >>

vars == << section, message_queue, queue, run_impl, pc, args, kwargs, injected,
           received, retval, caught, raised, result, log, callres, waited,
           static >>

---------------------------------------------------------------------------
\* Values and dicts

\* src/coalib/output/printers/LOG_LEVEL (imported at Bear.py:4)
LOG_LEVEL == {"DEBUG", "WARNING", "ERROR"}

StrVal(s) == [t |-> "str", v |-> s]
IntVal(s) == [t |-> "int", v |-> s]
Absent   == [t |-> "absent", v |-> ""]

\* The signature of the example checker's run hook:
\*   def run_bear(self, p, q: int=6, dependency_results=None)
ParamNames == {"p", "q"}
DefaultQ   == IntVal("6")

\* A dict over the parameter names; Absent marks a key that is not in it.
EmptyDict == [k \in ParamNames |-> Absent]
Keys(d)   == {k \in ParamNames : d[k] # Absent}

\* dict.update (Bear.py:74): every key of other replaces the key of d.
DictUpdate(d, other) ==
    [k \in ParamNames |-> IF other[k] # Absent THEN other[k] ELSE d[k]]

---------------------------------------------------------------------------
\* Texts

\* The class name of a bear, __class__.__name__ (Bear.py:80).
Name(b) == "Bear" \o b

\* _("...").format(name) of Bear.py:82, 85, 88, 94 and 95-103.
SetUpText(b)    == << "Setting up bear ", Name(b), "..." >>
RunText(b)      == << "Running bear ", Name(b), "..." >>
TearDownText(b) == << "Tearing down bear ", Name(b), "..." >>
FailedText(b)   == << "Bear ", Name(b), " failed to run" >>
TraceText(b, e) == << "The bear ", Name(b), " raised an exception.",
                      "Traceback information is provided below:", e >>

\* An argument of a message function: a str, or something that is not one.
StrArg(s) == [isStr |-> TRUE,  s |-> s]
NonStr    == [isStr |-> FALSE, s |-> << >>]

RECURSIVE join(_, _)
\* str(delimiter).join(args) (Bear.py:67), args all of type str.
join(delimiter, xs) ==
    IF Len(xs) = 0 THEN << >>
    ELSE IF Len(xs) = 1 THEN xs[1].s
    ELSE xs[1].s \o delimiter \o join(delimiter, Tail(xs))

AllStr(xs) == \A i \in 1..Len(xs) : xs[i].isStr

\* LogMessage(log_level, message) (Bear.py:66): the pair it stands for.
LogMessage(level, text) == [log_level |-> level, message |-> text]

NoMessage == LogMessage("-", << >>)

\* __send_msg (Bear.py:59-68): what one call does, given the channel content q.
\*   noop      - returned before building a message (lines 60-64)
\*   TypeError - str.join met an argument that is not a str (line 67)
\*   Full      - put found no free slot within TIMEOUT (line 66-68)
\*   wait      - put is blocked on a full channel, TIMEOUT not yet over
\*   put       - the message was enqueued
send_msg_nonone(b, q, log_level, delimiter, xs) ==
    IF Len(xs) = 0 THEN [res |-> "noop", msg |-> NoMessage]
    ELSE IF ~AllStr(xs) THEN [res |-> "TypeError", msg |-> NoMessage]
    ELSE IF message_queue[b] = "None"
         THEN [res |-> "AttributeError", msg |-> NoMessage]
    ELSE IF Len(q) >= QueueCap THEN [res |-> "Full", msg |-> NoMessage]
    ELSE [res |-> "put", msg |-> LogMessage(log_level, join(delimiter, xs))]

send_msg_block(b, q, log_level, delimiter, xs) ==
    IF message_queue[b] = "None" THEN [res |-> "noop", msg |-> NoMessage]
    ELSE IF Len(xs) = 0 THEN [res |-> "noop", msg |-> NoMessage]
    ELSE IF ~AllStr(xs) THEN [res |-> "TypeError", msg |-> NoMessage]
    ELSE IF Len(q) >= QueueCap THEN [res |-> "wait", msg |-> NoMessage]
    ELSE [res |-> "put", msg |-> LogMessage(log_level, join(delimiter, xs))]

send_msg(b, q, log_level, delimiter, xs) ==
    IF message_queue[b] = "None" THEN [res |-> "noop", msg |-> NoMessage]
    ELSE IF Len(xs) = 0 THEN [res |-> "noop", msg |-> NoMessage]
    ELSE IF ~AllStr(xs) THEN [res |-> "TypeError", msg |-> NoMessage]
    ELSE IF Len(q) >= QueueCap
         THEN (IF waited[b] < TIMEOUT[b] THEN [res |-> "wait", msg |-> NoMessage]
               ELSE [res |-> "Full", msg |-> NoMessage])
    ELSE [res |-> "put", msg |-> LogMessage(log_level, join(delimiter, xs))]

\* The channel after the call.
Enqueued(q, o) == IF o.res = "put" THEN Append(q, o.msg) ELSE q

Space == << " " >>

\* debug_msg / warn_msg (Bear.py:50-54) with the default delimiter and one
\* text, as Bear.run calls them.
debug_msg(b, q, text) == send_msg(b, q, "DEBUG", Space, << StrArg(text) >>)

warn_msg_error(b, q, text) == send_msg(b, q, "ERROR", Space, << StrArg(text) >>)

warn_msg_debug(b, q, text) == send_msg(b, q, "DEBUG", Space, << StrArg(text) >>)

warn_msg(b, q, text) == send_msg(b, q, "WARNING", Space, << StrArg(text) >>)

---------------------------------------------------------------------------
\* Binding the run hook's parameters

\* The raw values a section may hold for the two settings.
SectionValuesP == {Absent, StrVal("sp")}
SectionValuesQ == {Absent, StrVal("7"), StrVal("x")}

\* int(raw): the texts that parse as an integer.
IsNumeral(raw) == raw.v \in {"6", "7", "9"}

\* FunctionMetadata.create_params_from_section(section), called at Bear.py:74
\* with the section alone.  Required p (no annotation): the stored value, a
\* missing one is fatal.  Optional q (annotation int): the stored value
\* converted with int, left out when the section has none.  A class that
\* keeps the variadic base run_bear declares no settings.
create_params_from_section(b, sec) ==
    IF ~run_impl[b] THEN [ok |-> TRUE, params |-> EmptyDict]
    ELSE IF sec["p"] = Absent THEN [ok |-> FALSE, params |-> EmptyDict]
    ELSE IF sec["q"] # Absent /\ ~IsNumeral(sec["q"])
         THEN [ok |-> FALSE, params |-> EmptyDict]
    ELSE [ok |-> TRUE,
          params |-> [k \in ParamNames |->
                        IF k = "p" THEN sec["p"]
                        ELSE IF sec["q"] = Absent THEN Absent
                        ELSE IntVal(sec["q"].v)]]

NotCalled == [called |-> FALSE, p |-> Absent, q |-> Absent]

\* self.run_bear(*args, **kwargs) (Bear.py:76-77) against the signature
\* run_bear(self, p, q=6): Python's argument binding.  ok = FALSE is the
\* TypeError of a parameter given twice or of a required one not given.
CallRunBear(xs, kw) ==
    LET posP == Len(xs) >= 1
        posQ == Len(xs) >= 2
    IN  IF Len(xs) > 2 \/ (posP /\ kw["p"] # Absent) \/ (posQ /\ kw["q"] # Absent)
           \/ (~posP /\ kw["p"] = Absent)
        THEN [ok |-> FALSE, bound |-> NotCalled]
        ELSE [ok |-> TRUE,
              bound |-> [called |-> TRUE,
                         p |-> IF posP THEN xs[1] ELSE kw["p"],
                         q |-> IF posQ THEN xs[2]
                               ELSE IF kw["q"] # Absent THEN kw["q"]
                               ELSE DefaultQ]]

\* What the caller of Bear.run may inject.
InjectedArgs   == { << >>, << StrVal("ap") >> }
InjectedKwargs == { d \in [ParamNames -> {Absent, StrVal("ip"), IntVal("9")}] :
                      /\ d["p"] \in {Absent, StrVal("ip")}
                      /\ d["q"] \in {Absent, IntVal("9")} }

---------------------------------------------------------------------------
\* Log of one invocation

PutEv(m)   == [ev |-> "put", level |-> m.log_level, text |-> m.message]
HookEv(h)  == [ev |-> "hook", level |-> "-", text |-> << h >>]
ReturnEv   == [ev |-> "return", level |-> "-", text |-> << >>]

Logged(l, o) == IF o.res = "put" THEN Append(l, PutEv(o.msg)) ELSE l

Idle(b) == pc[b] \in {"created", "done", "failed"}

NoCall == [op |-> "-", res |-> "-", put |-> FALSE]

\* The attributes Bear.__init__ sets (Bear.py:40-42).
AllAttrs == {"section", "message_queue", "TIMEOUT"}

NoCtor == [section |-> "-", queue |-> "-", timeout |-> 0, res |-> "-"]

NoDepCall == [lst |-> << >>, deps |-> << >>, result |-> << >>, called |-> FALSE]

NoMetadata == [by |-> "-", omit |-> {}, non_optional_params |-> {},
               optional_params |-> {}]

---------------------------------------------------------------------------
\* Bear.run (Bear.py:79-103), one action per statement

\* A caller invokes run(*xs, **kw) on a bear that is not running.
RunWith(b, xs, kw) ==
    /\ Idle(b)
    /\ args' = [args EXCEPT ![b] = xs]
    /\ kwargs' = [kwargs EXCEPT ![b] = kw]
    /\ injected' = [injected EXCEPT ![b] = [args |-> xs, kwargs |-> kw]]
    /\ pc' = [pc EXCEPT ![b] = "msg_setup"]
    /\ received' = [received EXCEPT ![b] = NotCalled]
    /\ retval' = [retval EXCEPT ![b] = "unset"]
    /\ caught' = [caught EXCEPT ![b] = "none"]
    /\ raised' = [raised EXCEPT ![b] = "none"]
    /\ result' = [result EXCEPT ![b] = "unset"]
    /\ log' = [log EXCEPT ![b] = << >>]
    /\ UNCHANGED << static, waited, section, message_queue, queue, run_impl, callres >>

\* run with any injected arguments.
Run(b) == \E xs \in InjectedArgs, kw \in InjectedKwargs : RunWith(b, xs, kw)

\* run(), nothing injected.
Call(b) == RunWith(b, << >>, EmptyDict)

\* A debug_msg inside the try block: on success go on at next, a fault of
\* the emission is caught by the except clause like any other.
TryMsg(b, text, next) ==
    LET o == debug_msg(b, queue, text)
    IN  /\ o.res # "wait"
        /\ waited' = [waited EXCEPT ![b] = 0]
        /\ queue' = Enqueued(queue, o)
        /\ log' = [log EXCEPT ![b] = Logged(@, o)]
        /\ IF o.res \in {"put", "noop"}
           THEN /\ pc' = [pc EXCEPT ![b] = next]
                /\ UNCHANGED caught
           ELSE /\ pc' = [pc EXCEPT ![b] = "exc_warn"]
                /\ caught' = [caught EXCEPT ![b] = o.res]
        /\ UNCHANGED << static, section, message_queue, run_impl, args, kwargs, injected,
                        received, retval, raised, result, callres >>

\* A hook that takes no argument: it returns, or it raises fault.
Hook(b, name, fault, next) ==
    /\ log' = [log EXCEPT ![b] = Append(@, HookEv(name))]
    /\ \/ /\ pc' = [pc EXCEPT ![b] = next]
          /\ UNCHANGED caught
       \/ /\ pc' = [pc EXCEPT ![b] = "exc_warn"]
          /\ caught' = [caught EXCEPT ![b] = fault]
    /\ UNCHANGED << static, waited, section, message_queue, queue, run_impl, args, kwargs,
                    injected, received, retval, raised, result, callres >>

MsgSetUp_skip(b) == pc[b] = "msg_setup" /\ TryMsg(b, SetUpText(b), "msg_run")

\* Bear.py:82
MsgSetUp(b) == pc[b] = "msg_setup" /\ TryMsg(b, SetUpText(b), "set_up")

\* Bear.py:83
SetUp(b) == pc[b] = "set_up" /\ Hook(b, "set_up", "SetUpError", "msg_run")

\* Bear.py:85
MsgRun(b) == pc[b] = "msg_run" /\ TryMsg(b, RunText(b), "run_bear")

\* Bear.py:86 with run_bear_from_section (Bear.py:73-77) and the run hook.
RunBearFromSection(b) ==
    /\ pc[b] = "run_bear"
    /\ LET cp   == create_params_from_section(b, section)
           kw   == DictUpdate(kwargs[b], cp.params)
           call == IF run_impl[b] THEN CallRunBear(args[b], kw)
                   ELSE [ok |-> TRUE,
                         bound |-> [called |-> TRUE, p |-> kw["p"], q |-> kw["q"]]]
       IN  IF ~cp.ok
           THEN /\ caught' = [caught EXCEPT ![b] = "BindingError"]
                /\ pc' = [pc EXCEPT ![b] = "exc_warn"]
                /\ UNCHANGED << kwargs, received, retval, log >>
           ELSE /\ kwargs' = [kwargs EXCEPT ![b] = kw]
                /\ IF ~call.ok
                   THEN /\ caught' = [caught EXCEPT ![b] = "TypeError"]
                        /\ pc' = [pc EXCEPT ![b] = "exc_warn"]
                        /\ UNCHANGED << received, retval, log >>
                   ELSE /\ received' = [received EXCEPT ![b] = call.bound]
                        /\ log' = [log EXCEPT ![b] = Append(@, HookEv("run_bear"))]
                        /\ IF ~run_impl[b]
                           THEN /\ caught' = [caught EXCEPT ![b] = "NotImplementedError"]
                                /\ pc' = [pc EXCEPT ![b] = "exc_warn"]
                                /\ UNCHANGED retval
                           ELSE \/ /\ retval' = [retval EXCEPT ![b] = "findings"]
                                   /\ pc' = [pc EXCEPT ![b] = "msg_teardown"]
                                   /\ UNCHANGED caught
                                \/ /\ caught' = [caught EXCEPT ![b] = "RunError"]
                                   /\ pc' = [pc EXCEPT ![b] = "exc_warn"]
                                   /\ UNCHANGED retval
    /\ UNCHANGED << static, waited, section, message_queue, queue, run_impl, args, injected,
                    raised, result, callres >>

\* Bear.py:88
MsgTearDown(b) == pc[b] = "msg_teardown" /\ TryMsg(b, TearDownText(b), "tear_down")

\* Bear.py:89
TearDown(b) == pc[b] = "tear_down" /\ Hook(b, "tear_down", "TearDownError", "return")

\* The invocation is over: its locals are gone.
Finished(b, state) ==
    /\ pc' = [pc EXCEPT ![b] = state]
    /\ args' = [args EXCEPT ![b] = << >>]
    /\ kwargs' = [kwargs EXCEPT ![b] = EmptyDict]
    /\ retval' = [retval EXCEPT ![b] = "unset"]

Return_none(b) ==
    /\ pc[b] = "return"
    /\ result' = [result EXCEPT ![b] = "None"]
    /\ log' = [log EXCEPT ![b] = Append(@, ReturnEv)]
    /\ Finished(b, "done")
    /\ UNCHANGED << static, waited, section, message_queue, queue, run_impl, injected, received,
                    caught, raised, callres >>

\* Bear.py:91
Return(b) ==
    /\ pc[b] = "return"
    /\ result' = [result EXCEPT ![b] = retval[b]]
    /\ log' = [log EXCEPT ![b] = Append(@, ReturnEv)]
    /\ Finished(b, "done")
    /\ UNCHANGED << static, waited, section, message_queue, queue, run_impl, injected, received,
                    caught, raised, callres >>

ExcWarn_reraise(b) ==
    /\ pc[b] = "exc_warn"
    /\ raised' = [raised EXCEPT ![b] = caught[b]]
    /\ Finished(b, "failed")
    /\ UNCHANGED << static, waited, section, message_queue, queue, run_impl, injected, received,
                    caught, result, log, callres >>

\* Bear.py:93-94, inside the except clause: a fault here leaves Bear.run.
ExcWarn(b) ==
    /\ pc[b] = "exc_warn"
    /\ LET o == warn_msg(b, queue, FailedText(b))
       IN  /\ o.res # "wait"
           /\ waited' = [waited EXCEPT ![b] = 0]
           /\ queue' = Enqueued(queue, o)
           /\ log' = [log EXCEPT ![b] = Logged(@, o)]
           /\ IF o.res \in {"put", "noop"}
              THEN /\ pc' = [pc EXCEPT ![b] = "exc_debug"]
                   /\ UNCHANGED << args, kwargs, retval, raised >>
              ELSE /\ raised' = [raised EXCEPT ![b] = o.res]
                   /\ Finished(b, "failed")
    /\ UNCHANGED << static, section, message_queue, run_impl, injected, received, caught,
                    result, callres >>

ExcDebug_done(b) ==
    /\ pc[b] = "exc_debug"
    /\ LET o == debug_msg(b, queue, TraceText(b, caught[b]))
       IN  /\ o.res # "wait"
           /\ waited' = [waited EXCEPT ![b] = 0]
           /\ queue' = Enqueued(queue, o)
           /\ log' = [log EXCEPT ![b] = Logged(@, o)]
           /\ result' = [result EXCEPT ![b] = retval[b]]
           /\ UNCHANGED raised
           /\ Finished(b, "done")
    /\ UNCHANGED << static, section, message_queue, run_impl, injected, received, caught,
                    callres >>

\* Bear.py:95-103, then the implicit return None.
ExcDebug(b) ==
    /\ pc[b] = "exc_debug"
    /\ LET o == debug_msg(b, queue, TraceText(b, caught[b]))
       IN  /\ o.res # "wait"
           /\ waited' = [waited EXCEPT ![b] = 0]
           /\ queue' = Enqueued(queue, o)
           /\ log' = [log EXCEPT ![b] = Logged(@, o)]
           /\ IF o.res \in {"put", "noop"}
              THEN /\ result' = [result EXCEPT ![b] = "None"]
                   /\ UNCHANGED raised
              ELSE /\ raised' = [raised EXCEPT ![b] = o.res]
                   /\ UNCHANGED result
           /\ Finished(b, "failed")
    /\ UNCHANGED << static, section, message_queue, run_impl, injected, received, caught,
                    callres >>

\* The consumer of the channel takes the oldest message.
Get ==
    /\ queue # << >>
    /\ queue' = Tail(queue)
    /\ UNCHANGED << static, waited, section, message_queue, run_impl, pc, args, kwargs, injected,
                    received, retval, caught, raised, result, log, callres >>

\* The positions of Bear.run that call a message function.
Emitting == {"msg_setup", "msg_run", "msg_teardown", "exc_warn", "exc_debug"}

\* message_queue.put(..., timeout=self.TIMEOUT) (Bear.py:66-68) blocked on a
\* full channel: one more tick of the timeout passes.
Wait(b) ==
    /\ pc[b] \in Emitting
    /\ message_queue[b] # "None"
    /\ Len(queue) >= QueueCap
    /\ waited[b] < TIMEOUT[b]
    /\ waited' = [waited EXCEPT ![b] = @ + 1]
    /\ UNCHANGED << static, section, message_queue, queue, run_impl, pc, args,
                    kwargs, injected, received, retval, caught, raised, result,
                    log, callres >>

---------------------------------------------------------------------------
\* Direct calls on a bear that is not inside Bear.run

\* The argument tuples and delimiters the message functions are called with.
MsgArgs == { << >>,
             << StrArg(<< >>) >>,
             << StrArg(<< "a" >>) >>,
             << StrArg(<< >>), StrArg(<< >>) >>,
             << StrArg(<< "a" >>), NonStr >> }
Delimiters == { Space, << >> }

Msg(b, op, log_level) ==
    /\ Idle(b)
    /\ \E xs \in MsgArgs, d \in Delimiters :
          LET o == send_msg(b, queue, log_level, d, xs)
          IN  /\ o.res # "wait"
              /\ queue' = Enqueued(queue, o)
              /\ callres' = [callres EXCEPT ![b] =
                                [op |-> op, res |-> o.res, put |-> o.res = "put"]]
    /\ UNCHANGED << static, waited, section, message_queue, run_impl, pc, args, kwargs, injected,
                    received, retval, caught, raised, result, log >>

\* Bear.py:50-51
DebugMsg(b) == Msg(b, "debug_msg", "DEBUG")

\* Bear.py:53-54
WarnMsg(b) == Msg(b, "warn_msg", "WARNING")

\* Bear.py:56-57
FailMsg(b) == Msg(b, "fail_msg", "ERROR")

\* Bear.kind() on the base class (Bear.py:105-110).
Kind(b) ==
    /\ Idle(b)
    /\ callres' = [callres EXCEPT ![b] =
                      [op |-> "kind", res |-> "NotImplementedError", put |-> FALSE]]
    /\ UNCHANGED << static, waited, section, message_queue, queue, run_impl, pc, args, kwargs,
                    injected, received, retval, caught, raised, result, log >>

\* run_bear called directly, outside Bear.run (Bear.py:70-71 for a class that
\* does not override it).
RunBear(b) ==
    /\ Idle(b)
    /\ \E r \in IF run_impl[b] THEN {"findings", "RunError"}
                ELSE {"NotImplementedError"} :
          callres' = [callres EXCEPT ![b] =
                         [op |-> "run_bear", res |-> r, put |-> FALSE]]
    /\ UNCHANGED << static, waited, section, message_queue, queue, run_impl, pc, args, kwargs,
                    injected, received, retval, caught, raised, result, log >>

---------------------------------------------------------------------------
\* Construction (Bear.py:31-42)

\* Objects handed in as section: the Section "S", and one that is no Section.
SectionArgs == {"S", "dict"}

\* Objects handed in as message_queue: None, a queue, and one without put.
QueueArgs == {"None", "queue", "noput"}

init_check_noqueue(sec, mq) ==
    IF sec # "S" THEN "TypeError" ELSE "ok"

\* The two checks of lines 35-38.
init_check(sec, mq) ==
    IF sec # "S" THEN "TypeError"
    ELSE IF mq # "queue" /\ mq # "None" THEN "TypeError"
    ELSE "ok"

\* Bear(sec, mq, TIMEOUT=t) for a bear that does not exist yet.
Construct(b) ==
    /\ pc[b] = "off"
    /\ \E sec \in SectionArgs, mq \in QueueArgs, t \in 0..MaxTimeout :
          LET res == init_check(sec, mq)
          IN  /\ ctor' = [ctor EXCEPT ![b] = [section |-> sec, queue |-> mq,
                                              timeout |-> t, res |-> res]]
              /\ IF res = "ok"
                 THEN /\ self_section' = [self_section EXCEPT ![b] = sec]
                      /\ message_queue' = [message_queue EXCEPT ![b] = mq]
                      /\ TIMEOUT' = [TIMEOUT EXCEPT ![b] = t]
                      /\ attrs' = [attrs EXCEPT ![b] = AllAttrs]
                      /\ pc' = [pc EXCEPT ![b] = "created"]
                 ELSE UNCHANGED << self_section, message_queue, TIMEOUT, attrs,
                                  pc >>
    /\ UNCHANGED << section, queue, run_impl, args, kwargs, injected, received,
                    retval, caught, raised, result, log, callres, waited,
                    dep_mode, declared, dep_list, depcall, signature, metadata >>

---------------------------------------------------------------------------
\* Class-level functions: prerequisites (Bear.py:123-151)

\* The bear classes a class can name as prerequisites.
Classes == {"X", "Y"}

\* Python lists of classes, up to n long.
Lists(n) == UNION { [1..k -> Classes] : k \in 0..n }

Range(l) == { l[i] : i \in 1..Len(l) }

\* list.remove(x): drops the first occurrence of x.
RECURSIVE Remove(_, _)
Remove(l, x) ==
    IF l = << >> THEN << >>
    ELSE IF Head(l) = x THEN Tail(l)
    ELSE << Head(l) >> \o Remove(Tail(l), x)

\* cls.get_dependencies(): [] in Bear (line 151); an overriding class returns
\* a list it builds on every call ("fresh") or one list it keeps ("stored").
get_dependencies ==
    IF dep_mode = "default" THEN << >>
    ELSE IF dep_mode = "fresh" THEN declared
    ELSE dep_list

\* The loop of lines 134-136 on dep_classes.
RECURSIVE remove_scheduled(_, _)
remove_scheduled(dep_classes, lst) ==
    IF lst = << >> THEN dep_classes
    ELSE remove_scheduled(IF Head(lst) \in Range(dep_classes)
                          THEN Remove(dep_classes, Head(lst))
                          ELSE dep_classes,
                          Tail(lst))

\* cls.missing_dependencies(lst): the list returned is the very list
\* get_dependencies() handed out, after the removals.
MissingDependencies ==
    \E lst \in Lists(MaxDeps) :
        LET dep_classes == get_dependencies
            res == remove_scheduled(dep_classes, lst)
        IN  /\ depcall' = [lst |-> lst, deps |-> dep_classes, result |-> res,
                           called |-> TRUE]
            /\ dep_list' = IF dep_mode = "stored" THEN res ELSE dep_list
            /\ UNCHANGED << running, TIMEOUT, attrs, self_section, ctor,
                            dep_mode, declared, signature, metadata >>

---------------------------------------------------------------------------
\* Metadata of the run hook (Bear.py:112-121)

\* Names a formal parameter of a described callable can have.
SigNames == {"self", "p", "q", "dependency_results"}

\* A signature: its formal parameters, each with or without a default; self
\* never has one.
Signatures ==
    { sig \in SUBSET [name : SigNames, has_default : BOOLEAN] :
        /\ \A x, y \in sig : x.name = y.name => x = y
        /\ \A x \in sig : x.name = "self" => ~x.has_default }

\* FunctionMetadata.from_function(func, omit): the parameters outside omit,
\* those without default as non_optional_params, those with as
\* optional_params; by names who derived the record.
from_function(sig, omit, by) ==
    [by |-> by,
     omit |-> omit,
     non_optional_params |-> { x.name : x \in { y \in sig : ~y.has_default /\ y.name \notin omit } },
     optional_params     |-> { x.name : x \in { y \in sig : y.has_default /\ y.name \notin omit } }]

get_metadata_noomit(sig) == from_function(sig, {"self"}, "get_metadata")

\* cls.get_metadata() for a class whose run_bear has the signature sig.
get_metadata(sig) ==
    from_function(sig, {"self", "dependency_results"}, "get_metadata")

\* A caller derives the record of the callable with an omit list of its own.
FromFunction ==
    /\ \E omit \in SUBSET SigNames :
          metadata' = from_function(signature, omit, "from_function")
    /\ UNCHANGED << running, TIMEOUT, attrs, self_section, ctor, dep_mode,
                    declared, dep_list, depcall, signature >>

GetMetadata ==
    /\ metadata' = get_metadata(signature)
    /\ UNCHANGED << running, TIMEOUT, attrs, self_section, ctor, dep_mode,
                    declared, dep_list, depcall, signature >>

---------------------------------------------------------------------------
\* Specifications

Sections == { sec \in [ParamNames -> SectionValuesP \cup SectionValuesQ] :
                 sec["p"] \in SectionValuesP /\ sec["q"] \in SectionValuesQ }

\* A message another producer left in the shared channel.
Other == LogMessage("DEBUG", << "other" >>)

\* The state after construction (Bear.py:31-42) of the bears in live; the
\* other bears are never constructed.
Constructed(live) ==
    /\ section \in Sections
    /\ message_queue \in [Bears -> {"None", "queue"}]
    /\ \A b \in Bears \ live : message_queue[b] = "None"
    /\ run_impl \in [Bears -> BOOLEAN]
    /\ \A b \in Bears \ live : run_impl[b]
    /\ pc = [b \in Bears |-> IF b \in live THEN "created" ELSE "off"]
    /\ args = [b \in Bears |-> << >>]
    /\ kwargs = [b \in Bears |-> EmptyDict]
    /\ injected = [b \in Bears |-> [args |-> << >>, kwargs |-> EmptyDict]]
    /\ received = [b \in Bears |-> NotCalled]
    /\ retval = [b \in Bears |-> "unset"]
    /\ caught = [b \in Bears |-> "none"]
    /\ raised = [b \in Bears |-> "none"]
    /\ result = [b \in Bears |-> "unset"]
    /\ log = [b \in Bears |-> << >>]
    /\ callres = [b \in Bears |-> NoCall]
    /\ TIMEOUT \in [Bears -> 0..MaxTimeout]
    /\ \A b \in Bears \ live : TIMEOUT[b] = 0
    /\ waited = [b \in Bears |-> 0]
    /\ attrs = [b \in Bears |-> IF b \in live THEN AllAttrs ELSE {}]
    /\ self_section = [b \in Bears |-> IF b \in live THEN "S" ELSE "unset"]
    /\ ctor = [b \in Bears |-> NoCtor]

\* TIMEOUT=0, the default of Bear.py:34.
DefaultTimeout == TIMEOUT = [b \in Bears |-> 0]

\* No class with prerequisites and no callable are under study.
NoDependencies ==
    /\ dep_mode = "default"
    /\ declared = << >>
    /\ dep_list = << >>
    /\ depcall = NoDepCall

NoCallable ==
    /\ signature = {}
    /\ metadata = NoMetadata

Init ==
    /\ Constructed({"A"})
    /\ DefaultTimeout
    /\ NoDependencies
    /\ NoCallable
    /\ queue = << >>

\* The statements of Bear.run after its entry.
Steps(b) ==
    \/ MsgSetUp(b)
    \/ SetUp(b)
    \/ MsgRun(b)
    \/ RunBearFromSection(b)
    \/ MsgTearDown(b)
    \/ TearDown(b)
    \/ Return(b)
    \/ ExcWarn(b)
    \/ ExcDebug(b)

Lifecycle(b) == Run(b) \/ Steps(b)

Next ==
    \/ \E b \in Bears : Lifecycle(b) \/ Kind(b) \/ RunBear(b)
    \/ Get

Spec == Init /\ [][Next]_vars

\* The message functions alone, on one section.
InitMsg ==
    /\ Constructed({"A"})
    /\ DefaultTimeout
    /\ NoDependencies
    /\ NoCallable
    /\ section = [k \in ParamNames |-> Absent]
    /\ run_impl["A"]
    /\ queue = << >>

NextMsg ==
    \/ \E b \in Bears : DebugMsg(b) \/ WarnMsg(b) \/ FailMsg(b)
    \/ Get

SpecMsg == InitMsg /\ [][NextMsg]_vars

\* A bear constructed with message_queue = None, next to a channel that other
\* producers write and a consumer reads.
InitNoQueue ==
    /\ Constructed({"A"})
    /\ DefaultTimeout
    /\ NoDependencies
    /\ NoCallable
    /\ message_queue["A"] = "None"
    /\ queue \in { << >>, << Other >>, << Other, Other >> }

NextNoQueue ==
    \/ \E b \in Bears : Lifecycle(b) \/ DebugMsg(b) \/ WarnMsg(b) \/ FailMsg(b)
    \/ Get

SpecNoQueue == InitNoQueue /\ [][NextNoQueue]_vars

\* Bear.run on a bear with a channel and any TIMEOUT up to MaxTimeout; the
\* thread that runs it keeps running and the clock keeps ticking, the
\* consumer may never read.
InitLive ==
    /\ Constructed({"A"})
    /\ message_queue["A"] = "queue"
    /\ run_impl["A"]
    /\ section["q"] = Absent
    /\ NoDependencies
    /\ NoCallable
    /\ queue = << >>

NextLive ==
    \/ \E b \in Bears : Call(b) \/ Steps(b) \/ Wait(b)
    \/ Get

SpecLive ==
    /\ InitLive
    /\ [][NextLive]_vars
    /\ \A b \in Bears : WF_vars(Steps(b) \/ Wait(b))

\* Two bears with fault-free binding that share one channel and run
\* concurrently.
InitConc ==
    /\ Constructed(Bears)
    /\ section = [k \in ParamNames |-> IF k = "p" THEN StrVal("sp") ELSE StrVal("7")]
    /\ message_queue = [b \in Bears |-> "queue"]
    /\ run_impl = [b \in Bears |-> TRUE]
    /\ DefaultTimeout
    /\ NoDependencies
    /\ NoCallable
    /\ queue = << >>

NextConc ==
    \/ \E b \in Bears : Call(b) \/ Steps(b)
    \/ Get

SpecConc == InitConc /\ [][NextConc]_vars

\* Bears constructed with any arguments, then run; nobody reads the channel.
InitCtor ==
    /\ Constructed({})
    /\ section = [k \in ParamNames |-> IF k = "p" THEN StrVal("sp") ELSE Absent]
    /\ queue = << >>
    /\ NoDependencies
    /\ NoCallable

NextCtor == \E b \in Bears : Construct(b) \/ Call(b) \/ Steps(b) \/ Wait(b)

SpecCtor == InitCtor /\ [][NextCtor]_vars

\* Callables and run hooks of any signature, described.
InitMeta ==
    /\ Constructed({})
    /\ section = [k \in ParamNames |-> Absent]
    /\ queue = << >>
    /\ NoDependencies
    /\ signature \in Signatures
    /\ metadata = NoMetadata

NextMeta == FromFunction \/ GetMetadata

SpecMeta == InitMeta /\ [][NextMeta]_vars

\* Classes with any declared prerequisites, asked what is missing.
InitDeps ==
    /\ Constructed({})
    /\ section = [k \in ParamNames |-> Absent]
    /\ queue = << >>
    /\ dep_mode \in {"default", "fresh", "stored"}
    /\ declared \in Lists(MaxDeps)
    /\ dep_mode = "default" => declared = << >>
    /\ dep_list = IF dep_mode = "stored" THEN declared ELSE << >>
    /\ depcall = NoDepCall
    /\ NoCallable

NextDeps == MissingDependencies

SpecDeps == InitDeps /\ [][NextDeps]_vars

---------------------------------------------------------------------------
\* Observations on an invocation

Terminal(b) == pc[b] \in {"done", "failed"}

\* The lifecycle state of section 4.3 that a position of Bear.run belongs to.
\* A phase starts when Bear.run turns to that phase's diagnostic; FAILED
\* starts when the except clause is entered.
State(b) ==
    CASE pc[b] \in {"off", "created"} -> "CREATED"
      [] pc[b] \in {"msg_setup", "set_up"} -> "SETTING_UP"
      [] pc[b] \in {"msg_run", "run_bear"} -> "RUNNING"
      [] pc[b] \in {"msg_teardown", "tear_down", "return"} -> "TEARING_DOWN"
      [] pc[b] = "done" -> "DONE"
      [] OTHER -> "FAILED"

IsPut(e) == e.ev = "put"
Puts(l) == SelectSeq(l, IsPut)

Has(l, e) == \E i \in 1..Len(l) : l[i] = e
Before(l, e1, e2) == \E i, j \in 1..Len(l) : i < j /\ l[i] = e1 /\ l[j] = e2

SetUpDiag(b)    == PutEv(LogMessage("DEBUG", SetUpText(b)))
RunDiag(b)      == PutEv(LogMessage("DEBUG", RunText(b)))
TearDownDiag(b) == PutEv(LogMessage("DEBUG", TearDownText(b)))
Warning(b)      == PutEv(LogMessage("WARNING", FailedText(b)))
Trace(b)        == PutEv(LogMessage("DEBUG", TraceText(b, caught[b])))

\* The part of a log that follows the entry of the run hook.
AfterRunHook(l) ==
    IF Has(l, HookEv("run_bear"))
    THEN LET i == CHOOSE k \in 1..Len(l) : l[k] = HookEv("run_bear")
         IN  SubSeq(l, i + 1, Len(l))
    ELSE << >>

IsPrefix(s, t) == Len(s) <= Len(t) /\ s = SubSeq(t, 1, Len(s))

HookFaults    == {"SetUpError", "RunError", "NotImplementedError", "TearDownError"}

\* The faults of an invocation's own hooks, binding and arguments.
OwnFaults == HookFaults \cup {"BindingError", "TypeError"}

\* The channel holds no message of b.
NoneOf(b) == \A i \in 1..Len(queue) : Name(b) \notin Range(queue[i].message)

IsWarning(e) == e.ev = "put" /\ e.level = "WARNING"
RunHookFaults == {"RunError", "NotImplementedError"}

---------------------------------------------------------------------------
\* Claims

\* C1 (as claimed): whenever an invocation ended after a fault raised inside
\* set_up, the run hook or tear_down, Bear.run returned None and raised
\* nothing to its caller.
C1_Containment ==
    \A b \in Bears :
        (pc[b] = "failed" /\ caught[b] \in HookFaults)
            => (result[b] = "None" /\ raised[b] = "none")

\* The value parameter P has by the claimed precedence: injected argument,
\* else the section's value (converted to the annotation), else the default.
Precedence(b, P) ==
    IF P = "p" /\ Len(injected[b].args) >= 1 THEN injected[b].args[1]
    ELSE IF injected[b].kwargs[P] # Absent THEN injected[b].kwargs[P]
    ELSE IF section[P] # Absent
         THEN (IF P = "q" THEN IntVal(section[P].v) ELSE section[P])
    ELSE IF P = "q" THEN DefaultQ
    ELSE Absent

\* C2 (as claimed): every parameter the run hook was entered with has the
\* injected value if one was given to run, else the section's value, else the
\* recorded default.
C2_Precedence ==
    \A b \in Bears :
        (run_impl[b] /\ received[b].called)
            => \A P \in ParamNames : received[b][P] = Precedence(b, P)

\* The order of one invocation's diagnostics, hooks and return.
Lifecycle_order(b) ==
    IF message_queue[b] = "queue"
    THEN << SetUpDiag(b), HookEv("set_up"), RunDiag(b), HookEv("run_bear"),
            TearDownDiag(b), HookEv("tear_down"), ReturnEv >>
    ELSE << HookEv("set_up"), HookEv("run_bear"), HookEv("tear_down"), ReturnEv >>

LifecyclePart(b) ==
    LET Keep(e) == e \in {SetUpDiag(b), HookEv("set_up"), RunDiag(b),
                          HookEv("run_bear"), TearDownDiag(b),
                          HookEv("tear_down"), ReturnEv}
    IN  SelectSeq(log[b], Keep)

\* C3: at every moment the set-up diagnostic, set_up, the run diagnostic, the
\* run hook, the tear-down diagnostic, tear_down and the return that have
\* happened in an invocation are an initial part of exactly that order
\* (without the diagnostics for a bear that has no channel), and a result is
\* returned only when all of them have happened.
C3_Ordering ==
    \A b \in Bears :
        /\ IsPrefix(LifecyclePart(b), Lifecycle_order(b))
        /\ result[b] = "findings" => LifecyclePart(b) = Lifecycle_order(b)

C3_Witness ==
    /\ pc["A"] = "done"
    /\ message_queue["A"] = "queue"
    /\ result["A"] = "findings"
    /\ Len(Puts(log["A"])) = 3

\* C4 (as claimed): after an invocation in which the run hook raised, the
\* diagnostics enqueued since the fault are exactly the WARNING then the DEBUG
\* trace, no tear-down diagnostic was enqueued, and no result was returned.
C4_Original ==
    \A b \in Bears :
        (pc[b] = "failed" /\ caught[b] \in RunHookFaults)
            => /\ Puts(AfterRunHook(log[b])) = << Warning(b), Trace(b) >>
               /\ ~Has(log[b], TearDownDiag(b))
               /\ result[b] # "findings"

\* C4 (amended): once the run hook has raised, no tear-down diagnostic is
\* enqueued and no result is returned; the diagnostics enqueued since the
\* fault are an initial part of WARNING, DEBUG trace: both when the bear has a
\* channel and Bear.run returned, none when it has no channel.
C4_Amended ==
    \A b \in Bears :
        caught[b] \in RunHookFaults
            => /\ IsPrefix(Puts(AfterRunHook(log[b])), << Warning(b), Trace(b) >>)
               /\ ~Has(log[b], TearDownDiag(b))
               /\ result[b] # "findings"
               /\ (pc[b] = "failed" /\ message_queue[b] = "queue" /\ raised[b] = "none")
                     => Puts(AfterRunHook(log[b])) = << Warning(b), Trace(b) >>
               /\ message_queue[b] = "None" => Puts(log[b]) = << >>

C4_Witness ==
    /\ pc["A"] = "failed"
    /\ caught["A"] = "RunError"
    /\ result["A"] = "None"
    /\ Puts(AfterRunHook(log["A"])) = << Warning("A"), Trace("A") >>

\* C5 (as claimed): in every finished invocation that entered the run hook,
\* set_up was entered before it and tear_down after it.
C5_Bracket ==
    \A b \in Bears :
        (Terminal(b) /\ Has(log[b], HookEv("run_bear")))
            => /\ Before(log[b], HookEv("set_up"), HookEv("run_bear"))
               /\ Before(log[b], HookEv("run_bear"), HookEv("tear_down"))

\* C6 (as claimed): an invocation whose tear-down diagnostic was enqueued is
\* never in FAILED.
C6_Original ==
    \A b \in Bears : Has(log[b], TearDownDiag(b)) => State(b) # "FAILED"

LifecycleEdges ==
    { << "CREATED", "SETTING_UP" >>, << "SETTING_UP", "RUNNING" >>,
      << "RUNNING", "TEARING_DOWN" >>, << "TEARING_DOWN", "DONE" >>,
      << "SETTING_UP", "FAILED" >>, << "RUNNING", "FAILED" >>,
      << "TEARING_DOWN", "FAILED" >> }

\* C6 (amended): within an invocation the state only moves along CREATED ->
\* SETTING_UP -> RUNNING -> TEARING_DOWN -> DONE or from SETTING_UP, RUNNING
\* or TEARING_DOWN to FAILED; DONE and FAILED are left only by a new call of
\* run.
C6_Amended ==
    [][\A b \in Bears :
          State(b)' # State(b)
              => \/ << State(b), State(b)' >> \in LifecycleEdges
                 \/ State(b) \in {"DONE", "FAILED"} /\ pc'[b] = "msg_setup"]_vars

C6_Witness ==
    /\ State("A") = "FAILED"
    /\ caught["A"] = "TearDownError"
    /\ Has(log["A"], TearDownDiag("A"))
    /\ Has(log["A"], HookEv("tear_down"))

\* C7 (as claimed): Bear.run never raises to its caller.
C7_NoPropagation == \A b \in Bears : raised[b] = "none"

\* C8 (as claimed): kind() raises NotImplementedError, and an invocation whose
\* run hook raised NotImplementedError raised it to the caller of Bear.run.
C8_Original ==
    \A b \in Bears :
        /\ callres[b].op = "kind" => callres[b].res = "NotImplementedError"
        /\ (pc[b] = "failed" /\ caught[b] = "NotImplementedError")
              => raised[b] = "NotImplementedError"

\* C8 (amended): kind() and a direct call of a run_bear that is not overridden
\* raise NotImplementedError to their caller; inside Bear.run the
\* NotImplementedError of the run hook is caught like any other fault: it is
\* never raised to the caller, no result is returned, and with a channel that
\* takes both messages the WARNING and the DEBUG trace are enqueued.
C8_Amended ==
    \A b \in Bears :
        /\ callres[b].op = "kind" => callres[b].res = "NotImplementedError"
        /\ (callres[b].op = "run_bear" /\ ~run_impl[b])
              => callres[b].res = "NotImplementedError"
        /\ raised[b] # "NotImplementedError"
        /\ (~run_impl[b] /\ Has(log[b], HookEv("run_bear")))
              => caught[b] = "NotImplementedError"
        /\ (pc[b] = "failed" /\ caught[b] = "NotImplementedError")
              => /\ result[b] \in {"None", "unset"}
                 /\ raised[b] \in {"none", "Full"}
                 /\ (result[b] = "None" /\ message_queue[b] = "queue")
                       => Puts(AfterRunHook(log[b])) = << Warning(b), Trace(b) >>

C8_Witness ==
    /\ pc["A"] = "failed"
    /\ caught["A"] = "NotImplementedError"
    /\ result["A"] = "None"
    /\ callres["A"].op = "kind"

\* C9: for a bear constructed with message_queue = None no call of debug_msg,
\* warn_msg or fail_msg and no Bear.run raises from an emission or enqueues
\* anything: the channel only ever holds what other producers put there.
C9_Suppression ==
    /\ \A b \in Bears :
          message_queue[b] = "None"
              => /\ callres[b].res \in {"-", "noop"}
                 /\ ~callres[b].put
                 /\ Puts(log[b]) = << >>
                 /\ raised[b] = "none"
                 /\ caught[b] \notin {"Full", "AttributeError"}
    /\ \A i \in 1..Len(queue) : queue[i] = Other

C9_Witness ==
    /\ message_queue["A"] = "None"
    /\ callres["A"].op = "fail_msg"
    /\ pc["A"] = "failed"
    /\ caught["A"] = "RunError"
    /\ result["A"] = "None"
    /\ queue = << Other >>

\* C10 (as claimed): the channel never holds a diagnostic whose text is empty.
C10_NoEmptyText ==
    \A i \in 1..Len(queue) : queue[i].message # << >>

\* C11: every invocation of Bear.run that has started ends, in DONE or in
\* FAILED, whatever the channel holds and whether or not anybody reads it: a
\* put on a full channel gives up after TIMEOUT ticks.
C11_Termination ==
    \A b \in Bears : (pc[b] \notin {"off", "created", "done", "failed"}) ~> Terminal(b)

C11_Witness ==
    /\ pc["A"] \in Emitting
    /\ Len(queue) >= QueueCap
    /\ TIMEOUT["A"] > 0
    /\ waited["A"] = TIMEOUT["A"]

\* C12: the classes missing_dependencies returns are exactly those
\* get_dependencies() returned that do not occur in lst, and none with the
\* default get_dependencies.
C12_Difference ==
    depcall.called =>
        /\ \A c \in Classes :
              c \in Range(depcall.result)
                  <=> (c \in Range(depcall.deps) /\ c \notin Range(depcall.lst))
        /\ dep_mode = "default" => depcall.result = << >>

\* C13: after any call of missing_dependencies, get_dependencies() yields the
\* prerequisites the class declares, as before the call.
C13_Pure == get_dependencies = declared

\* C14: a constructor call raises TypeError exactly when the section is no
\* Section or the channel is neither None nor has put, and then the bear has
\* no attribute and never runs; otherwise the bear holds exactly the section,
\* channel and timeout given.
C14_Validation ==
    \A b \in Bears :
        /\ attrs[b] = {} => pc[b] = "off" /\ log[b] = << >>
        /\ ctor[b] # NoCtor =>
              /\ ctor[b].res = "TypeError"
                    <=> (ctor[b].section # "S" \/ ctor[b].queue = "noput")
              /\ ctor[b].res = "TypeError" => attrs[b] = {}
              /\ ctor[b].res # "TypeError" =>
                    /\ attrs[b] = AllAttrs
                    /\ self_section[b] = ctor[b].section
                    /\ message_queue[b] = ctor[b].queue
                    /\ TIMEOUT[b] = ctor[b].timeout

C14_Witness ==
    /\ ctor["A"].res = "TypeError" /\ ctor["A"].section = "S"
    /\ ctor["B"].res = "ok" /\ ctor["B"].queue = "queue"
    /\ pc["B"] = "failed" /\ Len(queue) > 0

\* C15: an invocation whose binding failed never entered run_bear or
\* tear_down, returned None without raising, and, with a channel, enqueued
\* the WARNING and then the DEBUG trace after its two progress diagnostics.
C15_BindingFailure ==
    \A b \in Bears :
        (pc[b] = "failed" /\ caught[b] = "BindingError") =>
            /\ ~Has(log[b], HookEv("run_bear"))
            /\ ~Has(log[b], HookEv("tear_down"))
            /\ result[b] = "None"
            /\ raised[b] = "none"
            /\ message_queue[b] = "queue" =>
                  /\ Len(log[b]) >= 2
                  /\ SubSeq(log[b], Len(log[b]) - 1, Len(log[b]))
                        = << Warning(b), Trace(b) >>

\* C16: an invocation that ended with no fault caught returned the run
\* hook's value, and its channel took exactly the set-up, run and tear-down
\* DEBUG diagnostics, in that order, and nothing else.
C16_FaultFree ==
    \A b \in Bears :
        /\ (Terminal(b) /\ caught[b] = "none") =>
              /\ pc[b] = "done"
              /\ result[b] = "findings"
              /\ received[b].called
              /\ Puts(log[b]) = IF message_queue[b] = "queue"
                                THEN << SetUpDiag(b), RunDiag(b), TearDownDiag(b) >>
                                ELSE << >>
        /\ pc[b] = "done" => caught[b] = "none"

C16_Witness ==
    /\ pc["A"] = "done"
    /\ message_queue["A"] = "queue"
    /\ result["A"] = "findings"
    /\ Len(Puts(log["A"])) = 3

\* C17: a bear whose own hooks, binding and arguments are fault-free ends in
\* DONE with the run hook's value, also when the shared channel holds only
\* what its sibling enqueued.
C17_Isolation ==
    \A b \in Bears :
        (Terminal(b) /\ caught[b] \notin OwnFaults /\ NoneOf(b)) =>
            pc[b] = "done" /\ result[b] = "findings"

C19_WarningMarksFailure ==
    \A b \in Bears :
        /\ \A i \in 1..Len(log[b]) : log[b][i].level # "ERROR"
        /\ Len(SelectSeq(log[b], IsWarning)) <= 1
        /\ Has(log[b], Warning(b)) => caught[b] # "none"
        /\ \A i \in 1..Len(log[b]) : IsWarning(log[b][i]) => log[b][i] = Warning(b)
        /\ (Terminal(b) /\ message_queue[b] = "queue" /\ caught[b] # "Full"
                /\ raised[b] = "none") =>
              /\ Has(log[b], Warning(b)) <=> (pc[b] = "failed" /\ result[b] = "None")
              /\ Has(log[b], Warning(b)) <=> result[b] # "findings"
              /\ \A i \in 1..Len(log[b]) :
                    log[b][i] = Warning(b) =>
                        i < Len(log[b]) /\ log[b][i + 1] = Trace(b)

C19_Witness ==
    /\ pc["A"] = "failed"
    /\ message_queue["A"] = "queue"
    /\ caught["A"] = "SetUpError"
    /\ raised["A"] = "none"
    /\ Has(log["A"], Warning("A"))

\* C20: whatever invocations came before on the same bear, an invocation
\* whose own hooks, binding and arguments are fault-free ends in DONE with
\* the run hook's value, also when it has not enqueued anything itself.
C20_Independent ==
    \A b \in Bears :
        (/\ Terminal(b)
         /\ run_impl[b]
         /\ create_params_from_section(b, section).ok
         /\ caught[b] \notin OwnFaults
         /\ Puts(log[b]) = << >>) =>
            pc[b] = "done" /\ result[b] = "findings"

====
